---- MODULE Spec2Model ----
(***************************************************************************)
(* State-machine model of src/src/App.jsx: the App component (token, user, *)
(* loading), the LoginScreen and Dashboard components it mounts, the mock  *)
(* api object, and the asynchronous requests in flight between a call and  *)
(* the continuation after its await.                                       *)
(*                                                                         *)
(* One action is one JavaScript task: an event handler or the continuation *)
(* of an await, together with the re-render and the effects (useEffect)    *)
(* that React runs as a consequence, up to the next await.                 *)
(*                                                                         *)
(* The api object stands in for a backend (App.jsx:7, 11-12).  A request   *)
(* stays in flight for an arbitrary time.  login answers as the mock       *)
(* computes.  getMe, getCourses and getRecommendations answer as the mock  *)
(* computes or reject (ServiceFaults): the mock rejects them only for a    *)
(* falsy token, which the callers test before calling, so without the      *)
(* rejections the catch blocks of fetchUser and fetchData are dead code.   *)
(***************************************************************************)
EXTENDS Integers, Sequences, FiniteSets, TLC

VARIABLES
    token,        \* App: useState(null)                              (App.jsx:188)
    user,         \* App: useState(null)                              (App.jsx:189)
    loading,      \* App: useState(true)                              (App.jsx:190)
    loginScreen,  \* the mounted LoginScreen's state, or unmounted  (App.jsx:72-75)
    dashboard,    \* the mounted Dashboard's state, or unmounted  (App.jsx:127-153)
    inflight,     \* api calls awaiting their answer         (App.jsx:82, 135, 197)
    session,      \* number of times the token went from null to a value
    console,      \* the last console.error call, or null       (App.jsx:142, 200)
    logins        \* number of times the login form was submitted

vars == <<token, user, loading, loginScreen, dashboard, inflight, session, console,
          logins>>

\* Number of submissions of the login form explored.
MaxLogins == 3

\* The same bound for the specification with fairness.
MaxLiveLogins == 2

\* JavaScript null, for the token (a string) and for objects.
NoToken == "null"
null == [null |-> TRUE]
unmounted == [mounted |-> FALSE]

\* What the user may type into the login form.
Usernames == {"testuser", "alice"}
Passwords == {"password", "wrongpass"}

-----------------------------------------------------------------------------
\* The mock api.  A call's answer is [ok |-> TRUE, value |-> v] (the promise
\* resolves with v) or [ok |-> FALSE, message |-> m] (it rejects with Error(m)).

Resolve(v) == [ok |-> TRUE, value |-> v]
Reject(m) == [ok |-> FALSE, message |-> m]

\* Mutant of api_login: the password is not compared.
api_login_ignoresPassword(username, password) ==
    IF username = "testuser"
    THEN Resolve([access_token |-> "fake-jwt-token", token_type |-> "bearer"])
    ELSE Reject("Invalid credentials")

api_login(username, password) ==
    IF username = "testuser" /\ password = "password"
    THEN Resolve([access_token |-> "fake-jwt-token", token_type |-> "bearer"])
    ELSE Reject("Invalid credentials")

userData ==
    [id |-> 1, username |-> "testuser", email |-> "test@example.com",
     enrolled_courses |-> <<101, 103>>]

\* Mutant of api_getMe: the profile comes back with another id.
api_getMe_otherId(tok) ==
    IF tok # NoToken THEN Resolve([userData EXCEPT !.id = 0])
    ELSE Reject("Not authenticated")

api_getMe(tok) ==
    IF tok # NoToken THEN Resolve(userData) ELSE Reject("Not authenticated")

Course(i, t, c, d) == [id |-> i, title |-> t, category |-> c, difficulty |-> d]

api_getCourses ==
    Resolve(<<Course(101, "Introduction to Python", "Programming", "Beginner"),
              Course(102, "Advanced Python", "Programming", "Advanced"),
              Course(103, "Data Science with Pandas", "Data Science", "Intermediate"),
              Course(104, "Machine Learning Fundamentals", "Data Science", "Intermediate"),
              Course(105, "Web Development with React", "Web Development", "Beginner")>>)

Recommendation(i, t, c, d, r) ==
    [id |-> i, title |-> t, category |-> c, difficulty |-> d, reason |-> r]

api_getRecommendations(userId, tok) ==
    IF tok # NoToken
    THEN Resolve(<<Recommendation(102, "Advanced Python", "Programming", "Advanced",
                       "Because you are taking 'Introduction to Python'"),
                   Recommendation(104, "Machine Learning Fundamentals", "Data Science",
                       "Intermediate", "Because you are taking 'Data Science with Pandas'")>>)
    ELSE Reject("Not authenticated")

\* Rejections of the backend the mock stands in for: the token is refused, or
\* the service cannot be reached.
ServiceFaults == {Reject("Not authenticated"), Reject("Failed to fetch")}

-----------------------------------------------------------------------------
\* Requests in flight.

\* A promise that has not settled.
pending == [pending |-> TRUE]

\* api.login(username, password), called by the LoginScreen instance form.
LoginReq(form, username, password) ==
    [kind |-> "login", form |-> form, username |-> username, password |-> password]

\* api.getMe(token), issued by the run of fetchUser that session s started.
GetMeReq(tok, s) == [kind |-> "getMe", token |-> tok, session |-> s]

\* Promise.all([api.getCourses(), api.getRecommendations(user.id, token)]) of one
\* run of fetchData: the Dashboard instance that runs it, the user and token it
\* closed over, and which of the two promises have resolved so far.
FetchReq(dashId, usr, tok) ==
    [kind |-> "fetchData", dash |-> dashId, userRef |-> usr.ref, userId |-> usr.id,
     token |-> tok, courses |-> pending, recs |-> pending]

-----------------------------------------------------------------------------
\* Components.

\* LoginScreen's useState initial values; id names the instance.
NewLoginScreen(formId) ==
    [mounted |-> TRUE, id |-> formId, username |-> "testuser", password |-> "password",
     error |-> "", loading |-> FALSE]

\* new Set(user.enrolled_courses || [])
EnrolledCourseIds(usr) ==
    LET e == IF "enrolled_courses" \in DOMAIN usr THEN usr.enrolled_courses ELSE <<>>
    IN  {e[i] : i \in DOMAIN e}

\* Dashboard's useState initial values and its first useMemo; id names the
\* instance.
NewDashboard(dashId, usr) ==
    [mounted |-> TRUE, id |-> dashId, courses |-> <<>>, recommendations |-> <<>>,
     loading |-> TRUE, enrolledCourseIds |-> EnrolledCourseIds(usr)]

\* Mutant of View: App tests only the profile before rendering the Dashboard.
View_ignoresToken(tok, usr, ld) ==
    IF ld THEN "Authenticating"
    ELSE IF usr = null THEN "LoginScreen"
    ELSE "Dashboard"

\* Which of its three returns App's render takes.
View(tok, usr, ld) ==
    IF ld THEN "Authenticating"
    ELSE IF tok = NoToken \/ usr = null THEN "LoginScreen"
    ELSE "Dashboard"

\* <CourseCard course isEnrolled reason />; a prop left out is falsy.
CourseCard(course, isEnrolled, reason) ==
    [course |-> course, isEnrolled |-> isEnrolled, reason |-> reason]

\* Mutant of ViewModel: recommendations of enrolled courses are not shown.
ViewModel_dropsEnrolled(dash) ==
    LET shown == SelectSeq(dash.recommendations,
                           LAMBDA rec : rec.id \notin dash.enrolledCourseIds)
    IN  [recommendations |->
            [i \in DOMAIN shown |-> CourseCard(shown[i], FALSE, shown[i].reason)],
         courses |->
            [i \in DOMAIN dash.courses |->
                CourseCard(dash.courses[i],
                           dash.courses[i].id \in dash.enrolledCourseIds, "")]]

\* The two card lists of the Dashboard: recommendations.map(...) and
\* courses.map(...).
ViewModel(dash) ==
    [recommendations |->
        [i \in DOMAIN dash.recommendations |->
            CourseCard(dash.recommendations[i], FALSE, dash.recommendations[i].reason)],
     courses |->
        [i \in DOMAIN dash.courses |->
            CourseCard(dash.courses[i], dash.courses[i].id \in dash.enrolledCourseIds, "")]]

\* Mutant of DashboardRender: the header, with its Logout button, is rendered
\* above the loading text as well.
DashboardRender_headerWhileLoading(dash, usr) ==
    IF dash.loading THEN [screen |-> "Loading Dashboard...", logoutButton |-> TRUE]
    ELSE [screen |-> "Dashboard", welcome |-> usr.username, logoutButton |-> TRUE,
          cards |-> ViewModel(dash)]

\* What Dashboard renders.
DashboardRender(dash, usr) ==
    IF dash.loading THEN [screen |-> "Loading Dashboard..."]
    ELSE [screen |-> "Dashboard", welcome |-> usr.username, logoutButton |-> TRUE,
          cards |-> ViewModel(dash)]

\* What LoginScreen renders.
LoginScreenRender(ls) ==
    [screen |-> "LoginScreen", error |-> ls.error, username |-> ls.username,
     password |-> ls.password, submitDisabled |-> ls.loading,
     submitLabel |-> IF ls.loading THEN "Logging in..." ELSE "Login"]

\* What App renders from the current state.
AppRender ==
    CASE View(token, user, loading) = "Authenticating" -> [screen |-> "Authenticating..."]
      [] View(token, user, loading) = "LoginScreen" -> LoginScreenRender(loginScreen)
      [] View(token, user, loading) = "Dashboard" -> DashboardRender(dashboard, user)

\* console.error(label, error): the console keeps the label of the last call.
ConsoleError(label) == [error |-> label]

-----------------------------------------------------------------------------
\* Re-render and effects.  A handler or continuation leaves App's state at
\* (tok, usr, ld), the mounted components' state at (ls, dash), the requests at
\* reqs and the console at cons; React then re-renders App and runs the effects
\* whose dependencies changed.

\* setUser(userData): every answer of getMe is a new object; ref is its identity
\* (the session of the fetchUser run that received it).
UserObject(v, s) ==
    [k \in DOMAIN v \cup {"ref"} |-> IF k = "ref" THEN s ELSE v[k]]

\* App's effect, deps [token]: runs when the token changed.
FetchUserRuns(tok) == tok # token

\* Dashboard's effect, deps [user, token]: runs on mount and when either changed.
FetchDataRuns(tok, usr, dash) == ~dash.mounted \/ usr # user \/ tok # token

\* Mutant of UseMemoRuns: the memo has no dependencies.
UseMemoRuns_mountOnly(usr, dash) == ~dash.mounted

\* Dashboard's useMemo, deps [user]: recomputed on mount and when user changed.
UseMemoRuns(usr, dash) == ~dash.mounted \/ usr # user

Commit(tok, usr, ld, ls, dash, reqs, cons) ==
    LET issuesGetMe == FetchUserRuns(tok) /\ tok # NoToken
        sess == IF issuesGetMe THEN session + 1 ELSE session
        reqsA == IF issuesGetMe THEN reqs \cup {GetMeReq(tok, sess)} ELSE reqs
        \* fetchUser with a null token falls through to setLoading(false)
        ldA == IF FetchUserRuns(tok) /\ tok = NoToken THEN FALSE ELSE ld
        view == View(tok, usr, ldA)
        dashR == IF view # "Dashboard" THEN unmounted
                 ELSE IF ~dash.mounted THEN NewDashboard(sess, usr)
                 ELSE IF UseMemoRuns(usr, dash)
                 THEN [dash EXCEPT !.enrolledCourseIds = EnrolledCourseIds(usr)]
                 ELSE dash
        \* if (user && token) fetchData()
        fetches == /\ view = "Dashboard" /\ FetchDataRuns(tok, usr, dash)
                   /\ usr # null /\ tok # NoToken
        dashE == IF fetches THEN [dashR EXCEPT !.loading = TRUE] ELSE dashR
        reqsD == IF fetches THEN reqsA \cup {FetchReq(dashR.id, usr, tok)} ELSE reqsA
        lsR == IF view # "LoginScreen" THEN unmounted
               ELSE IF ls.mounted THEN ls ELSE NewLoginScreen(sess)
    IN  /\ token' = tok
        /\ user' = usr
        /\ loading' = ldA
        /\ loginScreen' = lsR
        /\ dashboard' = dashE
        /\ inflight' = reqsD
        /\ session' = sess
        /\ console' = cons

-----------------------------------------------------------------------------
Init ==
    /\ token = NoToken
    /\ user = null
    /\ loading = TRUE
    /\ loginScreen = unmounted
    /\ dashboard = unmounted
    /\ inflight = {}
    /\ session = 0
    /\ console = null
    /\ logins = 0

\* App mounts: its effect runs fetchUser with the initial token.
AppMount ==
    /\ loading /\ inflight = {}
    /\ UNCHANGED logins
    /\ Commit(token, user, FALSE, loginScreen, dashboard, inflight, console)

\* onChange of the username input.
SetUsername(u) ==
    /\ loginScreen.mounted
    /\ UNCHANGED logins
    /\ Commit(token, user, loading, [loginScreen EXCEPT !.username = u],
              dashboard, inflight, console)

\* onChange of the password input.
SetPassword(p) ==
    /\ loginScreen.mounted
    /\ UNCHANGED logins
    /\ Commit(token, user, loading, [loginScreen EXCEPT !.password = p],
              dashboard, inflight, console)

\* handleLogin up to its await: the form is submitted (the button is disabled
\* while loading).
HandleLogin ==
    /\ loginScreen.mounted /\ ~loginScreen.loading
    /\ logins < MaxLogins
    /\ logins' = logins + 1
    /\ Commit(token, user, loading,
              [loginScreen EXCEPT !.loading = TRUE, !.error = ""],
              dashboard,
              inflight \cup {LoginReq(loginScreen.id, loginScreen.username,
                                      loginScreen.password)},
              console)

\* A setter of the LoginScreen instance form does nothing unless that instance
\* is still the mounted one.
SetLoginScreen(form, ls) ==
    IF loginScreen.mounted /\ loginScreen.id = form THEN ls ELSE loginScreen

\* handleLogin after its await: try / catch / finally.
LoginSettle(r) ==
    /\ r \in inflight /\ r.kind = "login"
    /\ UNCHANGED logins
    /\ LET data == api_login(r.username, r.password)
       IN  IF data.ok
           THEN Commit(data.value.access_token, user, loading,
                       SetLoginScreen(r.form, [loginScreen EXCEPT !.loading = FALSE]),
                       dashboard, inflight \ {r}, console)
           ELSE Commit(token, user, loading,
                       SetLoginScreen(r.form, [loginScreen EXCEPT !.error = data.message,
                                                                  !.loading = FALSE]),
                       dashboard, inflight \ {r}, console)

\* Mutant of GetMeSettle: the catch block does not clear the token.
GetMeSettle_keepsToken(r, ans) ==
    /\ r \in inflight /\ r.kind = "getMe"
    /\ UNCHANGED logins
    /\ IF ans.ok
       THEN Commit(token, UserObject(ans.value, r.session), FALSE,
                   loginScreen, dashboard, inflight \ {r}, console)
       ELSE Commit(token, user, FALSE,
                   loginScreen, dashboard, inflight \ {r},
                   ConsoleError("Failed to fetch user:"))

\* fetchUser after its await, ans being the answer to api.getMe: setUser, or the
\* catch block; then setLoading(false).
GetMeSettle(r, ans) ==
    /\ r \in inflight /\ r.kind = "getMe"
    /\ UNCHANGED logins
    /\ IF ans.ok
       THEN Commit(token, UserObject(ans.value, r.session), FALSE,
                   loginScreen, dashboard, inflight \ {r}, console)
       ELSE Commit(NoToken, user, FALSE,
                   loginScreen, dashboard, inflight \ {r},
                   ConsoleError("Failed to fetch user:"))

\* onClick of the Logout button, rendered when the Dashboard is not loading.
Logout ==
    /\ dashboard.mounted /\ ~dashboard.loading
    /\ UNCHANGED logins
    /\ Commit(NoToken, user, loading, loginScreen, dashboard, inflight, console)

Parts == {"courses", "recs"}
Other(part) == IF part = "courses" THEN "recs" ELSE "courses"

\* Mutant of SetDashboard: the setter reaches whichever Dashboard is mounted.
SetDashboard_anyInstance(inst, d) ==
    IF dashboard.mounted THEN d ELSE dashboard

\* A setter of the Dashboard instance inst does nothing unless that instance is
\* still the mounted one.
SetDashboard(inst, d) ==
    IF dashboard.mounted /\ dashboard.id = inst THEN d ELSE dashboard

\* Mutant of FetchDataResolved: setLoading(false) is left out after the data
\* has been stored.
FetchDataResolved_staysLoading(f, coursesData, recsData) ==
    SetDashboard(f.dash, [dashboard EXCEPT !.courses = coursesData,
                                           !.recommendations = recsData])

\* Mutant of FetchDataResolved: the recommendations are not stored.
FetchDataResolved_dropsRecs(f, coursesData, recsData) ==
    SetDashboard(f.dash, [dashboard EXCEPT !.courses = coursesData,
                                           !.loading = FALSE])

\* fetchData's try block after its await.
FetchDataResolved(f, coursesData, recsData) ==
    SetDashboard(f.dash, [dashboard EXCEPT !.courses = coursesData,
                                           !.recommendations = recsData,
                                           !.loading = FALSE])

\* Mutant of FetchDataRejected: no finally block, the Dashboard stays loading.
FetchDataRejected_noFinally(f) == dashboard

\* fetchData's catch and finally blocks.
FetchDataRejected(f) ==
    SetDashboard(f.dash, [dashboard EXCEPT !.loading = FALSE])

\* Mutant of FetchSettle: the first resolution already ends the loading state.
FetchSettle_firstAnswerWins(f, part, ans) ==
    /\ f \in inflight /\ f.kind = "fetchData"
    /\ part \in Parts /\ f[part] = pending
    /\ UNCHANGED logins
    /\ LET g == [f EXCEPT ![part] = ans]
       IN  IF ~ans.ok
           THEN Commit(token, user, loading, loginScreen, FetchDataRejected(f),
                       inflight \ {f},
                       ConsoleError("Failed to fetch dashboard data:"))
           ELSE IF g[Other(part)] = pending
           THEN Commit(token, user, loading, loginScreen,
                       SetDashboard(f.dash, [dashboard EXCEPT !.loading = FALSE]),
                       (inflight \ {f}) \cup {g}, console)
           ELSE Commit(token, user, loading, loginScreen,
                       FetchDataResolved(f, g.courses.value, g.recs.value),
                       inflight \ {f}, console)

\* Mutant of FetchSettle: each request is awaited on its own and stores its
\* result as soon as it resolves.
FetchSettle_commitsEach(f, part, ans) ==
    /\ f \in inflight /\ f.kind = "fetchData"
    /\ part \in Parts /\ f[part] = pending
    /\ UNCHANGED logins
    /\ LET g == [f EXCEPT ![part] = ans]
           stored == IF part = "courses"
                     THEN [dashboard EXCEPT !.courses = ans.value]
                     ELSE [dashboard EXCEPT !.recommendations = ans.value]
       IN  IF ~ans.ok
           THEN Commit(token, user, loading, loginScreen, FetchDataRejected(f),
                       inflight \ {f},
                       ConsoleError("Failed to fetch dashboard data:"))
           ELSE IF g[Other(part)] = pending
           THEN Commit(token, user, loading, loginScreen,
                       SetDashboard(f.dash, stored),
                       (inflight \ {f}) \cup {g}, console)
           ELSE Commit(token, user, loading, loginScreen,
                       SetDashboard(f.dash, [stored EXCEPT !.loading = FALSE]),
                       inflight \ {f}, console)

\* One of the two promises of a fetchData run settles with the answer ans.
\* Promise.all resolves when both have resolved and rejects as soon as one
\* rejects.
FetchSettle(f, part, ans) ==
    /\ f \in inflight /\ f.kind = "fetchData"
    /\ part \in Parts /\ f[part] = pending
    /\ UNCHANGED logins
    /\ LET g == [f EXCEPT ![part] = ans]
       IN  IF ~ans.ok
           THEN Commit(token, user, loading, loginScreen, FetchDataRejected(f),
                       inflight \ {f},
                       ConsoleError("Failed to fetch dashboard data:"))
           ELSE IF g[Other(part)] = pending
           THEN Commit(token, user, loading, loginScreen, dashboard,
                       (inflight \ {f}) \cup {g}, console)
           ELSE Commit(token, user, loading, loginScreen,
                       FetchDataResolved(f, g.courses.value, g.recs.value),
                       inflight \ {f}, console)

\* The requests of one kind that are in flight.
InFlight(kind) == {r \in inflight : r.kind = kind}

\* The answers api gives to a request, or to one part of a fetchData run.
GetMeAnswers(r) == {api_getMe(r.token)} \cup ServiceFaults
FetchAnswers(f, part) ==
    {IF part = "courses" THEN api_getCourses
     ELSE api_getRecommendations(f.userId, f.token)} \cup ServiceFaults

Next ==
    \/ AppMount
    \/ \E u \in Usernames : SetUsername(u)
    \/ \E p \in Passwords : SetPassword(p)
    \/ HandleLogin
    \/ \E r \in InFlight("login") : LoginSettle(r)
    \/ \E r \in InFlight("getMe") : \E ans \in GetMeAnswers(r) : GetMeSettle(r, ans)
    \/ Logout
    \/ \E f \in InFlight("fetchData") : \E part \in Parts :
          \E ans \in FetchAnswers(f, part) : FetchSettle(f, part, ans)

Spec == Init /\ [][Next]_vars

\* The program with its continuations scheduled: the effect of App's mount runs,
\* and every request that is in flight is answered, after which its continuation
\* runs.  What the user does (typing, submitting, Logout) is left unforced.
Fairness ==
    /\ WF_vars(AppMount)
    /\ WF_vars(\E r \in InFlight("login") : LoginSettle(r))
    /\ WF_vars(\E r \in InFlight("getMe") :
                  \E ans \in GetMeAnswers(r) : GetMeSettle(r, ans))
    /\ WF_vars(\E f \in InFlight("fetchData") : \E part \in Parts :
                  \E ans \in FetchAnswers(f, part) : FetchSettle(f, part, ans))

\* Next, with the form submitted at most MaxLiveLogins times.
LiveNext ==
    \/ AppMount
    \/ \E u \in Usernames : SetUsername(u)
    \/ \E p \in Passwords : SetPassword(p)
    \/ logins < MaxLiveLogins /\ HandleLogin
    \/ \E r \in InFlight("login") : LoginSettle(r)
    \/ \E r \in InFlight("getMe") : \E ans \in GetMeAnswers(r) : GetMeSettle(r, ans)
    \/ Logout
    \/ \E f \in InFlight("fetchData") : \E part \in Parts :
          \E ans \in FetchAnswers(f, part) : FetchSettle(f, part, ans)

LiveSpec == Init /\ [][LiveNext]_vars /\ Fairness

-----------------------------------------------------------------------------
\* The Dashboard against a service whose data varies.  The mock always answers
\* with the same profile, catalog and recommendations; here the answers are drawn
\* from small sets, so that what the Dashboard makes of the data shows.

Catalog == api_getCourses.value
Recs == api_getRecommendations(1, "fake-jwt-token").value

\* Catalogs: empty, the mock's, reordered, with a course listed twice.
Catalogs ==
    {<<>>, Catalog, <<Catalog[3], Catalog[1]>>, <<Catalog[2], Catalog[2], Catalog[4]>>}

\* Recommendation lists: empty, the mock's, reordered, one of an enrolled course.
RecLists ==
    {<<>>, Recs, <<Recs[2], Recs[1]>>,
     <<Recommendation(101, "Introduction to Python", "Programming", "Beginner",
                      "Popular with beginners")>>}

\* Profiles: the mock's, another enrolment, and one without enrolled_courses.
Profiles ==
    {userData,
     [userData EXCEPT !.enrolled_courses = <<102>>],
     [id |-> 1, username |-> "testuser", email |-> "test@example.com"]}

AggregateAnswers(part) ==
    IF part = "courses" THEN {Resolve(c) : c \in Catalogs}
    ELSE {Resolve(r) : r \in RecLists}

\* The state right after a second login: the profile of the first session is
\* still stored, so the Dashboard is mounted at once and fetches its data while
\* the second session's profile fetch is in flight.
AggregateInit ==
    /\ token = "fake-jwt-token"
    /\ user \in {UserObject(p, 1) : p \in Profiles}
    /\ loading = FALSE
    /\ loginScreen = unmounted
    /\ dashboard = NewDashboard(2, user)
    /\ inflight = {GetMeReq(token, 2), FetchReq(2, user, token)}
    /\ session = 2
    /\ console = null
    /\ logins = 2

AggregateNext ==
    \/ \E r \in InFlight("getMe") : \E p \in Profiles : GetMeSettle(r, Resolve(p))
    \/ \E f \in InFlight("fetchData") : \E part \in Parts :
          \E ans \in AggregateAnswers(part) : FetchSettle(f, part, ans)

AggregateSpec == AggregateInit /\ [][AggregateNext]_vars

-----------------------------------------------------------------------------
\* Vocabulary of the properties below.

DashboardScreens == {"Dashboard", "Loading Dashboard..."}
KnownAccount(username, password) == username = "testuser" /\ password = "password"
Unauthenticated == Reject("Not authenticated")

\* The session whose token a getMe request or a fetchData run was issued with.
RequestSession(r) == IF r.kind = "getMe" THEN r.session ELSE r.dash

\* The token a request was issued with has been cleared since.
Stale(r) == token = NoToken \/ session # RequestSession(r)

-----------------------------------------------------------------------------
\* C1: in every reachable state token = null implies user = null (clearing the
\* token, by Logout or after a failed profile fetch, also clears the profile).
C1_TokenNullImpliesUserNull == token = NoToken => user = null

\* C2: the answer to a profile fetch or dashboard fetch that was in flight when
\* the token was cleared is discarded: the step in which it arrives changes
\* neither user nor token nor the Dashboard's state.
C2_StaleResponseDiscarded ==
    [][\A r \in InFlight("getMe") \cup InFlight("fetchData") :
          (Stale(r) /\ r \notin inflight')
              => (user' = user /\ token' = token /\ dashboard' = dashboard)]_vars

\* C3: when the token was cleared while a dashboard fetch was outstanding, the
\* state reached once the last outstanding request (that fetch, resolving or
\* rejecting) has settled has user = null.
C3_UserNullAfterRace ==
    [][(/\ token = NoToken
        /\ \E f \in InFlight("fetchData") : f \notin inflight'
        /\ inflight' = {})
          => user' = null]_vars

\* C4: a login attempt with any pair other than the known account is rejected
\* by api.login with 'Invalid credentials'; when its answer arrives the message
\* is shown on the form that submitted it (React drops the update when that
\* form is no longer mounted), the token is left as it was, so a null token
\* stays null and the login screen stays, and no profile fetch is issued.
C4_InvalidLoginRejected ==
    [][\A r \in InFlight("login") :
          (~KnownAccount(r.username, r.password) /\ LoginSettle(r))
              => /\ api_login(r.username, r.password) = Reject("Invalid credentials")
                 /\ (loginScreen.mounted /\ loginScreen.id = r.form)
                        => /\ AppRender'.screen = "LoginScreen"
                           /\ AppRender'.error = "Invalid credentials"
                 /\ token' = token
                 /\ token = NoToken => AppRender'.screen = "LoginScreen"
                 /\ InFlight("getMe")' = InFlight("getMe")
                 /\ session' = session]_vars

C4_Witness ==
    /\ AppRender.screen = "LoginScreen"
    /\ AppRender.error = "Invalid credentials"
    /\ ~loginScreen.loading
    /\ token = NoToken /\ session = 0 /\ InFlight("getMe") = {}

\* C5: whenever a profile fetch fails, for either reason, the token becomes
\* null and the login screen is shown; and the token, hence the Dashboard,
\* comes back only in a step in which api.login answers a login with success.
C5_ProfileFailureLogsOut ==
    [][/\ \A r \in InFlight("getMe") : \A ans \in GetMeAnswers(r) :
             (~ans.ok /\ GetMeSettle(r, ans))
                 => (token' = NoToken /\ AppRender'.screen = "LoginScreen")
       /\ (token = NoToken /\ token' # NoToken)
             => \E r \in InFlight("login") :
                   api_login(r.username, r.password).ok /\ LoginSettle(r)
       /\ AppRender'.screen \in DashboardScreens => token' # NoToken]_vars

C5_Witness ==
    /\ console = ConsoleError("Failed to fetch user:")
    /\ token = NoToken
    /\ AppRender.screen = "LoginScreen"
    /\ InFlight("getMe") = {}

C7_FanOutFanIn ==
    [][/\ \A g \in InFlight("fetchData")' :
             (~\E f \in InFlight("fetchData") :
                   f.dash = g.dash /\ f.userRef = g.userRef)
                 => /\ g.courses = pending /\ g.recs = pending
                    /\ dashboard'.mounted /\ dashboard'.id = g.dash
                    /\ dashboard'.loading
       /\ \A f \in InFlight("fetchData") : \A part \in Parts :
             \A ans \in FetchAnswers(f, part) :
                (FetchSettle(f, part, ans) /\ ans.ok /\ f[Other(part)] = pending)
                    => dashboard' = dashboard
       /\ (/\ dashboard.mounted /\ dashboard'.mounted
           /\ dashboard'.id = dashboard.id
           /\ dashboard.loading /\ ~dashboard'.loading)
             => \E f \in InFlight("fetchData") : \E part \in Parts :
                   \E ans \in FetchAnswers(f, part) :
                      /\ f.dash = dashboard.id
                      /\ FetchSettle(f, part, ans)
                      /\ (~ans.ok \/ f[Other(part)] # pending)]_vars

C7_Witness ==
    \E f \in InFlight("fetchData") :
        /\ f.courses = pending /\ f.recs # pending
        /\ dashboard.mounted /\ dashboard.id = f.dash
        /\ AppRender.screen = "Loading Dashboard..."

\* C8: when either request of a fetchData run is rejected the failure is only
\* logged: token, user and the login form are untouched, and the run's
\* Dashboard, if still mounted, keeps its courses and recommendations, leaves
\* Loading and renders without any error.
C8_FetchFailureOnlyLogged ==
    [][\A f \in InFlight("fetchData") : \A part \in Parts :
          \A ans \in FetchAnswers(f, part) :
             (~ans.ok /\ FetchSettle(f, part, ans))
                 => /\ token' = token /\ user' = user
                    /\ loginScreen' = loginScreen
                    /\ console' = ConsoleError("Failed to fetch dashboard data:")
                    /\ IF dashboard.mounted /\ dashboard.id = f.dash
                       THEN /\ dashboard' = [dashboard EXCEPT !.loading = FALSE]
                            /\ AppRender'.screen = "Dashboard"
                            /\ "error" \notin DOMAIN AppRender'
                       ELSE dashboard' = dashboard]_vars

C8_Witness ==
    /\ console = ConsoleError("Failed to fetch dashboard data:")
    /\ AppRender.screen = "Dashboard"
    /\ AppRender.cards.courses = <<>>
    /\ InFlight("fetchData") = {}
    /\ token # NoToken /\ user # null

\* C9: whatever catalog and recommendation list the service answers a fetchData
\* run with, the Dashboard then shows one card per catalog entry in the
\* catalog's order and one card per recommendation in the service's order with
\* its reason: nothing is re-ranked, dropped or deduplicated.
C9_OrderPreserved ==
    [][\A f \in InFlight("fetchData") : \A part \in Parts :
          \A ans \in AggregateAnswers(part) :
             (/\ FetchSettle(f, part, ans)
              /\ f[Other(part)] # pending
              /\ dashboard.mounted /\ dashboard.id = f.dash)
                 => LET g == [f EXCEPT ![part] = ans]
                        catalog == g.courses.value
                        recs == g.recs.value
                    IN  /\ AppRender'.screen = "Dashboard"
                        /\ DOMAIN AppRender'.cards.courses = DOMAIN catalog
                        /\ \A i \in DOMAIN catalog :
                              AppRender'.cards.courses[i].course = catalog[i]
                        /\ DOMAIN AppRender'.cards.recommendations = DOMAIN recs
                        /\ \A i \in DOMAIN recs :
                              /\ AppRender'.cards.recommendations[i].course = recs[i]
                              /\ AppRender'.cards.recommendations[i].reason
                                    = recs[i].reason]_vars

C9_Witness ==
    /\ AppRender.screen = "Dashboard"
    /\ Len(AppRender.cards.courses) = 2
    /\ AppRender.cards.courses[1].course.id = 103
    /\ AppRender.cards.courses[2].course.id = 101
    /\ Len(AppRender.cards.recommendations) = 1
    /\ AppRender.cards.recommendations[1].course.id = 101
    /\ 101 \in EnrolledCourseIds(user)

\* C10: the isEnrolled flag shown for a course is membership of its id in the
\* stored profile's enrolled_courses (the empty set when the profile has none),
\* and the cards shown are determined by the catalog, the recommendations and
\* that set alone.
C10_EnrolledFlagIsMembership ==
    AppRender.screen = "Dashboard"
        => LET enrolled == EnrolledCourseIds(user)
               cards == AppRender.cards
           IN  /\ ("enrolled_courses" \notin DOMAIN user) => enrolled = {}
               /\ \A i \in DOMAIN dashboard.courses :
                     cards.courses[i].isEnrolled = (dashboard.courses[i].id \in enrolled)
               /\ cards =
                     [recommendations |->
                         [i \in DOMAIN dashboard.recommendations |->
                             CourseCard(dashboard.recommendations[i], FALSE,
                                        dashboard.recommendations[i].reason)],
                      courses |->
                         [i \in DOMAIN dashboard.courses |->
                             CourseCard(dashboard.courses[i],
                                        dashboard.courses[i].id \in enrolled, "")]]

C10_Witness ==
    /\ AppRender.screen = "Dashboard"
    /\ user.ref = 2
    /\ EnrolledCourseIds(user) = {102}
    /\ dashboard.courses = Catalog
    /\ \A i \in DOMAIN Catalog :
          AppRender.cards.courses[i].isEnrolled = (Catalog[i].id = 102)

\* C11: as long as no service call has been rejected, a Dashboard that is Ready
\* shows the known account's data: the stored profile has id 1 and enrolled
\* courses {101, 103}; the catalog has the 5 courses 101..105, of which exactly
\* 101 and 103 are marked enrolled; the recommendations are 102 then 104, each
\* with its reason.  The scenario login("testuser", "password") from the initial
\* state with every call resolving ends in such a state.
C11_ScenarioDashboard ==
    (AppRender.screen = "Dashboard" /\ console = null)
        => LET cards == AppRender.cards
           IN  /\ user.id = 1
               /\ EnrolledCourseIds(user) = {101, 103}
               /\ AppRender.welcome = "testuser"
               /\ Len(cards.courses) = 5
               /\ \A i \in 1..5 :
                     /\ cards.courses[i].course.id = 100 + i
                     /\ cards.courses[i].isEnrolled = (100 + i \in {101, 103})
               /\ Len(cards.recommendations) = 2
               /\ cards.recommendations[1].course.id = 102
               /\ cards.recommendations[1].reason
                     = "Because you are taking 'Introduction to Python'"
               /\ cards.recommendations[2].course.id = 104
               /\ cards.recommendations[2].reason
                     = "Because you are taking 'Data Science with Pandas'"

C11_Witness ==
    /\ logins = 1 /\ session = 1 /\ console = null
    /\ inflight = {}
    /\ AppRender.screen = "Dashboard"
    /\ Len(AppRender.cards.courses) = 5
    /\ AppRender.cards.courses[3].isEnrolled
    /\ Len(AppRender.cards.recommendations) = 2

\* C12: api.login answers the known account's credentials with a non-null
\* token, which the step that receives the answer stores; api.getMe called with
\* that token resolves, and the profile it returns has id 1 on every call, in
\* every session, so every profile ever stored has that id.
C12_KnownAccountStableId ==
    [][/\ \A r \in InFlight("login") :
             KnownAccount(r.username, r.password)
                 => LET data == api_login(r.username, r.password)
                    IN  /\ data.ok
                        /\ data.value.access_token # NoToken
                        /\ api_getMe(data.value.access_token).ok
                        /\ api_getMe(data.value.access_token).value.id = 1
                        /\ LoginSettle(r) => token' = data.value.access_token
       /\ \A r \in InFlight("getMe") :
             /\ r.token = api_login("testuser", "password").value.access_token
             /\ api_getMe(r.token).ok
             /\ api_getMe(r.token).value.id = 1
             /\ GetMeSettle(r, api_getMe(r.token))
                   => (user'.id = 1 /\ user'.ref = r.session)
       /\ user # null => user.id = 1]_vars

C12_Witness ==
    /\ logins = 3 /\ session = 3
    /\ token = "fake-jwt-token"
    /\ user # null
    /\ user.ref = 3 /\ user.id = 1
    /\ AppRender.screen = "Dashboard"

\* C13: the Logout button is rendered only by a Dashboard that is not loading:
\* in every reachable state that renders it, token and user are non-null, App
\* is past its initial loading and the Dashboard is Ready; the login screen,
\* the initial loading screen and the Dashboard's loading screen do not have
\* it; and Logout can be clicked exactly when it is rendered.
C13_LogoutOnlyWhenLoggedIn ==
    LET offered == "logoutButton" \in DOMAIN AppRender
    IN  /\ offered
            => /\ token # NoToken /\ user # null
               /\ ~loading
               /\ dashboard.mounted /\ ~dashboard.loading
               /\ AppRender.screen = "Dashboard"
        /\ AppRender.screen \in {"Authenticating...", "LoginScreen", "Loading Dashboard..."}
            => ~offered
        /\ offered <=> (dashboard.mounted /\ ~dashboard.loading)
        /\ offered <=> ENABLED Logout

C13_Witness ==
    /\ "logoutButton" \in DOMAIN AppRender
    /\ AppRender.logoutButton
    /\ ENABLED Logout
    /\ token # NoToken /\ user # null

\* C14: the Dashboard is rendered only with a profile that was fetched with the
\* current session's token, and every fetchData run in flight for the mounted
\* Dashboard closed over such a profile: never a profile fetched under an
\* earlier token that has been cleared since.
C14_DashboardAfterOwnProfileFetch ==
    /\ AppRender.screen \in DashboardScreens => user.ref = session
    /\ \A f \in InFlight("fetchData") :
          (dashboard.mounted /\ f.dash = dashboard.id) => f.userRef = f.dash

\* C15: whenever the mounted Dashboard is Ready (loading = false), no fetchData
\* run started by that Dashboard is still in flight.
C15_ReadyMeansNoFetchOutstanding ==
    (dashboard.mounted /\ ~dashboard.loading)
        => ~\E f \in InFlight("fetchData") : f.dash = dashboard.id

\* C16: a fetchData run stores its results all or nothing.  An answer that
\* leaves the other request pending stores nothing; a rejection leaves courses
\* and recommendations as they were, also when the other request had already
\* resolved; the second resolution stores both lists in one step; and in no
\* step does a Dashboard that stays mounted change one list without a run of
\* its own getting its second resolution.
C16_AllOrNothing ==
    [][/\ \A f \in InFlight("fetchData") : \A part \in Parts :
             \A ans \in FetchAnswers(f, part) :
                FetchSettle(f, part, ans)
                    => IF ~ans.ok \/ f[Other(part)] = pending
                       THEN /\ dashboard'.mounted = dashboard.mounted
                            /\ dashboard.mounted
                                  => /\ dashboard'.courses = dashboard.courses
                                     /\ dashboard'.recommendations
                                           = dashboard.recommendations
                       ELSE (dashboard.mounted /\ dashboard.id = f.dash)
                               => /\ dashboard'.courses
                                        = [f EXCEPT ![part] = ans].courses.value
                                  /\ dashboard'.recommendations
                                        = [f EXCEPT ![part] = ans].recs.value
       /\ (/\ dashboard.mounted /\ dashboard'.mounted
           /\ dashboard'.id = dashboard.id
           /\ \/ dashboard'.courses # dashboard.courses
              \/ dashboard'.recommendations # dashboard.recommendations)
             => \E f \in InFlight("fetchData") : \E part \in Parts :
                   \E ans \in FetchAnswers(f, part) :
                      /\ f.dash = dashboard.id
                      /\ ans.ok /\ f[Other(part)] # pending
                      /\ FetchSettle(f, part, ans)]_vars

\* One request of a run has resolved, the other is pending, and nothing has
\* been stored.
C16_Witness ==
    \E f \in InFlight("fetchData") :
        /\ f.courses = api_getCourses /\ f.recs = pending
        /\ dashboard.mounted /\ dashboard.id = f.dash
        /\ dashboard.courses = <<>> /\ dashboard.recommendations = <<>>

\* C17: a Dashboard that is mounted in a step (after a login) starts with empty
\* courses and recommendations and loading = true; and the answer to a
\* fetchData run that another, earlier Dashboard instance started leaves the
\* mounted Dashboard's courses, recommendations and loading flag as they were.
C17_DashboardPerSession ==
    [][/\ (dashboard'.mounted /\ (~dashboard.mounted \/ dashboard.id # dashboard'.id))
             => /\ dashboard'.courses = <<>>
                /\ dashboard'.recommendations = <<>>
                /\ dashboard'.loading
                /\ dashboard'.id = session'
       /\ \A f \in InFlight("fetchData") : \A part \in Parts :
             \A ans \in FetchAnswers(f, part) :
                (/\ FetchSettle(f, part, ans)
                 /\ dashboard.mounted /\ dashboard.id # f.dash)
                    => dashboard' = dashboard]_vars

\* A run started by the Dashboard of session 2 is in flight while the Dashboard
\* of session 3 is mounted and has its data.
C17_Witness ==
    \E f \in InFlight("fetchData") :
        /\ dashboard.mounted /\ dashboard.id > f.dash
        /\ ~dashboard.loading
        /\ dashboard.courses = Catalog

\* C18, as stated: at most one api.login request is in flight in any reachable
\* state.
C18_OneLoginInFlight == Cardinality(InFlight("login")) <= 1


\* C19, as stated: once a login has succeeded (the token is stored) and every
\* call is answered, the Dashboard is eventually Ready.  (Logout is offered only
\* by a Ready Dashboard, so the user cannot log out before.)
C19_LoginLeadsToReady ==
    (token # NoToken) ~> (AppRender.screen = "Dashboard")

\* C19, amended: once a login has succeeded and every call is answered, the
\* Dashboard is eventually Ready unless a rejected profile fetch clears the
\* token first; if from some point on the token stays stored (no Logout, no
\* rejected profile fetch), the Dashboard is eventually Ready for good; every
\* fetchData run is eventually answered, and the step in which a run ends by its
\* second resolution or by a rejection leaves its Dashboard, if still mounted,
\* with loading = false.
C19_ReadyUnlessProfileFetchFails ==
    /\ (token # NoToken) ~> (AppRender.screen = "Dashboard" \/ token = NoToken)
    /\ <>[](token # NoToken) => <>[](AppRender.screen = "Dashboard")
    /\ (InFlight("fetchData") # {}) ~> (InFlight("fetchData") = {})
    /\ [][\A f \in InFlight("fetchData") :
             (f \notin inflight' /\ InFlight("fetchData")' \subseteq InFlight("fetchData")
              /\ dashboard.mounted /\ dashboard.id = f.dash)
                 => (dashboard'.mounted /\ ~dashboard'.loading)]_vars

\* The Dashboard of a later session is Ready with nothing left in flight,
\* after a fetchData run was rejected.
C19_Witness ==
    /\ session >= 2
    /\ token # NoToken
    /\ AppRender.screen = "Dashboard"
    /\ inflight = {}
    /\ console = ConsoleError("Failed to fetch dashboard data:")

====
